---------------------------- MODULE Spec2Model ----------------------------
(* The ECS core of webgl2-engine: ComponentContainer, System and World.    *)
(* Two snapshots of the World are modelled:                                 *)
(*   "hasAll"  src/src/engine/ECS.ts   systems : Map<System, Set<Entity>>   *)
(*   "getAll"  src/unnamed/part_000    systems : Set<System>, every system  *)
(*             owning an EntityQuery (types, entities : Map<Entity, tuple>) *)
(* A behaviour is a sequence of World calls made by a caller outside a tick *)
(* or by the update() of the system the tick is running. An observer is     *)
(* attached to each behaviour: it records the history one family of claims  *)
(* is about (variable observe) and never changes what World does.           *)
EXTENDS Integers, Sequences, FiniteSets, TLC

\* --------------------------------------------------------------- bounds
MaxEntities  == 2   \* addEntity is called at most this many times
MaxPending   == 2   \* length of entitiesToDestroy
MaxTypes     == 2   \* length of a sequence of classes handed to getAll and hasAll
MaxSpeed     == 2   \* a rectangle's speed along an axis, in pixels per unit of time
MaxDelta     == 2   \* Engine.delta, in units of time
CanvasSize   == 4   \* width and height of gl.canvas, in pixels
MaxShaders   == 3   \* Shader instances the callers of Engine construct

\* --------------------------------------------------------------- inputs
Variants   == {"hasAll", "getAll"}
Classes    == {"Translation", "Velocity"}
Systems    == {"Mover", "Tracker", "Blank"}
NoSystem   == "none"
NoEntity   == MaxEntities   \* no addEntity returns it
NoClass    == "none"
ShaderIds  == 0 .. (MaxShaders - 1)
NoShader   == MaxShaders    \* no Shader: what Map.get returns for a missing name
ShaderNames == {"rect", "line", "text"}
EntityIds  == 0 .. (MaxEntities - 1)
\* Instances of a class a caller holds: an instance is replaced by another of
\* its class on Translation; one Velocity instance is enough for membership.
Instances(cls) == IF cls = "Translation" THEN {"A", "B"} ELSE {"A"}
Components == UNION {{[cls |-> c, inst |-> i] : i \in Instances(c)} : c \in Classes}

\* The component classes each system object declares, in declaration order
\* (componentsRequired in ECS.ts, the arguments of getQuery in part_000).
Declared(system) ==
    CASE system = "Mover"   -> <<"Velocity", "Translation">>
      [] system = "Tracker" -> <<"Translation">>
      [] OTHER              -> << >>

VARIABLES
    variant,            \* which snapshot of World this behaviour runs; "both": the calls
                        \* are made on a World of each snapshot, side by side
    entities,           \* World.entities : Entity -> ComponentContainer
    nextEntityID,       \* World.nextEntityID
    entitiesToDestroy,  \* World.entitiesToDestroy
    systems,            \* keys of World.systems in insertion order
    systemEntities,     \* ECS.ts: values of World.systems (System -> Set<Entity>)
    types,              \* componentsRequired (ECS.ts) / query.types (part_000)
    queryEntities,      \* part_000: system.query.entities (Entity -> tuple)
    phase,              \* "idle", "update" (a system's update runs), "destroy"
    cursor,             \* entries of systems the tick's iterator has passed
    running,            \* the system whose update() is executing
    observe,            \* what the observer records: kind is a method name, "removals"
                        \* or "flips" (of the pair entity, system)
    last,               \* the last call of the observed method and what it did
    calls,              \* observe = "tick": systems the running tick has invoked
    removedBefore,      \* "removals": ids removeEntity was called for outside a tick
    removedInTick,      \* "removals": <<id, by>>, removeEntity(id) called by update() of by
    served,             \* "removals": entity ids whose removeEntity a tick has drained
    gained,             \* "flips": <<entity, system, by>>, a component call made by the
                        \* update() of by in this tick made the observed pair match
    lost,               \* "flips": <<entity, system, by>>, ... ended its match
    returned,           \* "addEntity": the ids addEntity has returned, in call order
    rect,               \* the components of one rectangle of Rectangles.ts
    engine,             \* Engine: delta and the size of gl.canvas
    shaders,            \* Engine.shaders : name -> Shader
    cleared             \* the Shader instances whose clear() has deleted the program

world == <<variant, entities, nextEntityID, entitiesToDestroy, systems,
           systemEntities, types, queryEntities>>
control == <<phase, cursor, running>>
removals == <<removedBefore, removedInTick, served>>
flips == <<gained, lost>>
game == <<rect, engine, shaders, cleared>>
vars  == <<world, control, observe, last, calls, removals, flips, returned, game>>

\* ------------------------------------------------------------- helpers
Range(seq) == {seq[i] : i \in DOMAIN seq}

IndexOf(seq, x) == CHOOSE i \in DOMAIN seq : seq[i] = x

RemoveAt(seq, i) == [j \in 1 .. (Len(seq) - 1) |-> IF j < i THEN seq[j] ELSE seq[j + 1]]

Restrict(f, S) == [x \in S |-> f[x]]

\* ------------------------------------------------- ComponentContainer
\* A container is the function class -> instance of its Map. undefined and
\* null are values no component instance equals.
Undefined == [cls |-> "undefined", inst |-> "none"]

Null == <<[cls |-> "null", inst |-> "none"]>>

\* mutant: a new container holds a Translation
ContainerWithTranslation == [cls \in {"Translation"} |-> [cls |-> "Translation", inst |-> "A"]]

EmptyContainer == << >>

\* mutant: add keeps the instance the container holds for the class
addKeepFirst(container, component) ==
    [cls \in DOMAIN container \cup {component.cls} |->
        IF cls \in DOMAIN container THEN container[cls] ELSE component]

\* map.set(component.constructor, component)
add(container, component) ==
    [cls \in DOMAIN container \cup {component.cls} |->
        IF cls = component.cls THEN component ELSE container[cls]]

get(container, componentClass) ==
    IF componentClass \in DOMAIN container THEN container[componentClass] ELSE Undefined

has(container, componentClass) == componentClass \in DOMAIN container

RECURSIVE hasAllFrom(_, _, _)
hasAllFrom(container, componentClasses, i) ==
    IF i > Len(componentClasses) THEN TRUE
    ELSE IF ~ has(container, componentClasses[i]) THEN FALSE
    ELSE hasAllFrom(container, componentClasses, i + 1)

hasAll(container, componentClasses) == hasAllFrom(container, componentClasses, 1)

\* mutant: getAll leaves out the classes the container does not hold
RECURSIVE getAllFromHeld(_, _, _, _)
getAllFromHeld(container, componentClasses, i, result) ==
    IF i > Len(componentClasses) THEN result
    ELSE IF get(container, componentClasses[i]) = Undefined
         THEN getAllFromHeld(container, componentClasses, i + 1, result)
    ELSE getAllFromHeld(container, componentClasses, i + 1,
                        Append(result, get(container, componentClasses[i])))

RECURSIVE getAllFrom(_, _, _, _)
getAllFrom(container, componentClasses, i, result) ==
    IF i > Len(componentClasses) THEN result
    ELSE IF get(container, componentClasses[i]) = Undefined THEN Null
    ELSE getAllFrom(container, componentClasses, i + 1,
                    Append(result, get(container, componentClasses[i])))

getAll(container, componentClasses) == getAllFrom(container, componentClasses, 1, << >>)

\* mutant: remove deletes nothing
removeNothing(container, componentClass) == container

\* map.delete(componentClass): the container afterwards, and what it returns
remove(container, componentClass) == Restrict(container, DOMAIN container \ {componentClass})

removeResult(container, componentClass) == componentClass \in DOMAIN container

\* ------------------------------------------------ World: internal methods
\* mutant: the else branch of checkEntitySystem is lost
checkEntitySystemAddOnly(ents, sets, entity, system) ==
    IF system \notin DOMAIN sets THEN sets
    ELSE IF entity \in DOMAIN ents /\ hasAll(ents[entity], types[system])
         THEN [sets EXCEPT ![system] = @ \cup {entity}]
         ELSE sets

\* ECS.ts: the value of World.systems after checkEntitySystem(entity, system)
checkEntitySystem(ents, sets, entity, system) ==
    IF system \notin DOMAIN sets THEN sets
    ELSE IF entity \in DOMAIN ents /\ hasAll(ents[entity], types[system])
         THEN [sets EXCEPT ![system] = @ \cup {entity}]
         ELSE [sets EXCEPT ![system] = @ \ {entity}]

RECURSIVE checkEntityFrom(_, _, _, _, _)
checkEntityFrom(ents, sets, keys, entity, i) ==
    IF i > Len(keys) THEN sets
    ELSE checkEntityFrom(ents, checkEntitySystem(ents, sets, entity, keys[i]),
                         keys, entity, i + 1)

checkEntity(ents, sets, keys, entity) == checkEntityFrom(ents, sets, keys, entity, 1)

\* mutant: checkEntitySystem keeps the tuple an entity of the result set has
checkEntitySystemQStale(ents, queries, entity, system) ==
    LET components == IF entity \in DOMAIN ents
                      THEN getAll(ents[entity], types[system])
                      ELSE Null
    IN  IF components = Null
        THEN [queries EXCEPT ![system] = Restrict(@, DOMAIN @ \ {entity})]
        ELSE [queries EXCEPT ![system] =
                 [e \in DOMAIN @ \cup {entity} |->
                     IF e \in DOMAIN @ THEN @[e] ELSE components]]

\* part_000: every system's query.entities after checkEntitySystem(entity, system).
\* For an entity the store does not hold, ?.getAll yields undefined, which
\* `components == null` takes like null.
checkEntitySystemQ(ents, queries, entity, system) ==
    LET components == IF entity \in DOMAIN ents
                      THEN getAll(ents[entity], types[system])
                      ELSE Null
    IN  IF components = Null
        THEN [queries EXCEPT ![system] = Restrict(@, DOMAIN @ \ {entity})]
        ELSE [queries EXCEPT ![system] =
                 [e \in DOMAIN @ \cup {entity} |-> IF e = entity THEN components ELSE @[e]]]

RECURSIVE checkEntityFromQ(_, _, _, _, _)
checkEntityFromQ(ents, queries, keys, entity, i) ==
    IF i > Len(keys) THEN queries
    ELSE checkEntityFromQ(ents, checkEntitySystemQ(ents, queries, entity, keys[i]),
                          keys, entity, i + 1)

checkEntityQ(ents, queries, keys, entity) == checkEntityFromQ(ents, queries, keys, entity, 1)

\* mutant: destroyEntity deletes the container and leaves the result sets
destroyEntityStoreOnly(ents, sets, entity) ==
    [ents |-> Restrict(ents, DOMAIN ents \ {entity}), sets |-> sets]

\* mutant: destroyEntity of an id the store does not hold destroys the entity
\* of the lowest id
destroyEntityOrLowest(ents, sets, entity) ==
    LET target == IF entity \in DOMAIN ents \/ DOMAIN ents = {} THEN entity
                  ELSE CHOOSE e \in DOMAIN ents : \A other \in DOMAIN ents : e <= other
    IN  [ents |-> Restrict(ents, DOMAIN ents \ {target}),
         sets |-> [s \in DOMAIN sets |-> sets[s] \ {target}]]

\* mutant: destroyEntity spares the last entity of the store
destroyEntityButLast(ents, sets, entity) ==
    IF Cardinality(DOMAIN ents) <= 1 THEN [ents |-> ents, sets |-> sets]
    ELSE [ents |-> Restrict(ents, DOMAIN ents \ {entity}),
          sets |-> [s \in DOMAIN sets |-> sets[s] \ {entity}]]

\* ECS.ts: World.entities and the values of World.systems after destroyEntity
destroyEntity(ents, sets, entity) ==
    [ents |-> Restrict(ents, DOMAIN ents \ {entity}),
     sets |-> [s \in DOMAIN sets |-> sets[s] \ {entity}]]

\* mutant: destroyEntity of part_000 deletes the container and leaves the queries
destroyEntityQStoreOnly(ents, queries, keys, entity) ==
    [ents |-> Restrict(ents, DOMAIN ents \ {entity}), queries |-> queries]

\* part_000: World.entities and every query.entities after destroyEntity
destroyEntityQ(ents, queries, keys, entity) ==
    [ents    |-> Restrict(ents, DOMAIN ents \ {entity}),
     queries |-> [s \in DOMAIN queries |->
                    IF s \in Range(keys)
                    THEN Restrict(queries[s], DOMAIN queries[s] \ {entity})
                    ELSE queries[s]]]

\* ------------------------------------------------------------ observers
getComponents(entity) == IF entity \in DOMAIN entities THEN entities[entity] ELSE Undefined

Registered == Range(systems)

\* The entities a registered system is handed by tick: the Set the Map holds
\* for it (ECS.ts), the keys of its own query.entities (part_000).
ResultSet(system) ==
    IF variant = "hasAll" THEN systemEntities[system] ELSE DOMAIN queryEntities[system]

\* Whether the store `ents` holds `entity` with every class `system` requires.
Matches(ents, entity, system) ==
    entity \in DOMAIN ents /\ \A cls \in Range(types[system]) : cls \in DOMAIN ents[entity]

Event(op, entity, system, cls, note) ==
    [op |-> op, entity |-> entity, system |-> system, cls |-> cls, inst |-> "none",
     note |-> note]

\* The methods an observer watches: the one it is named after and, for the
\* observers of registration, the updates tick invokes.
Watches(op) ==
    CASE observe.kind = "tick" -> op \in {"update", "drain", "destroyEntity", "tick"}
      [] observe.kind \in {"addSystem", "removeSystem"} -> op \in {observe.kind, "update"}
      [] observe.kind = "components" -> op \in {"addComponent", "removeComponent"}
      [] observe.kind = "registry" -> op \in {"addSystem", "removeSystem"}
      [] observe.kind = "schedule" ->
             op \in {"addSystem", "update", "drain", "destroyEntity", "tick"}
      [] OTHER -> op = observe.kind

Quiet == Event("other", NoEntity, NoSystem, NoClass, "void")

\* what the observer of method `op` keeps of a call
Watched(op, event) == IF Watches(op) THEN event ELSE Quiet

\* The systems a component call of a running update turned for `entity`,
\* the store going from `entities` to `ents`.
Turned(ents, entity, into) ==
    IF observe.kind = "flips" /\ phase = "update" /\ entity = observe.entity
    THEN {s \in {observe.system} :
             Matches(ents, entity, s) = into /\ Matches(entities, entity, s) = ~ into}
    ELSE {}

FlipsAfter(ents, entity) ==
    /\ gained' = {t \in gained : ~ (t[1] = entity /\ t[2] \in Turned(ents, entity, FALSE))}
                     \cup {<<entity, s, running>> : s \in Turned(ents, entity, TRUE)}
    /\ lost' = {t \in lost : ~ (t[1] = entity /\ t[2] \in Turned(ents, entity, TRUE))}
                     \cup {<<entity, s, running>> : s \in Turned(ents, entity, FALSE)}

\* A removeEntity call is noted for an entity id, one addEntity has returned.
RemovalNoted(entity) ==
    IF observe.kind # "removals" \/ entity >= nextEntityID
    THEN UNCHANGED <<removedBefore, removedInTick>>
    ELSE IF phase = "update"
         THEN removedInTick' = removedInTick \cup {<<entity, running>>}
              /\ UNCHANGED removedBefore
         ELSE removedBefore' = removedBefore \cup {entity} /\ UNCHANGED removedInTick

\* tick returns: the removeEntity calls made since the last return are served
TickReturns ==
    /\ served' = served \cup removedBefore \cup {r[1] : r \in removedInTick}
    /\ removedBefore' = {}
    /\ removedInTick' = {}
    /\ gained' = {}
    /\ lost' = {}

\* The log of a tick is kept while tick runs and in the state it returns to.
LogAfterCall == calls' = IF phase = "idle" THEN << >> ELSE calls

Logged(log, event) ==
    IF observe.kind \in {"tick", "schedule"} THEN Append(log, event) ELSE log

\* The observer of scheduling keeps an addSystem call for a registered system
\* made between ticks, and after it the log of the tick that follows at once.
LogAfterAddSystem(system, again) ==
    calls' = IF phase # "idle" THEN calls
             ELSE IF observe.kind = "schedule" /\ again
             THEN <<Event("addSystem", NoEntity, system, NoClass, "again")>>
             ELSE << >>

\* the log a tick starts with: the addSystem call kept, if tick follows it
LogAtStart == IF observe.kind = "schedule" /\ last.op = "addSystem" THEN calls ELSE << >>

\* A World method is called by code outside a tick or by the running update().
Callable == phase \in {"idle", "update"}

\* ------------------------------------------------------- API: entities
\* the ids returned so far, as the observer of addEntity keeps them
Returned(entity) ==
    IF observe.kind = "addEntity" THEN Append(returned, entity) ELSE returned

\* the lowest id the store does not hold
LowestFree == CHOOSE e \in 0 .. MaxEntities : e \notin DOMAIN entities /\
                  \A lower \in 0 .. (e - 1) : lower \in DOMAIN entities

\* mutant: addEntity hands out the lowest id the store does not hold
addEntityReuse ==
    /\ Callable
    /\ nextEntityID < MaxEntities
    /\ nextEntityID' = nextEntityID + 1
    /\ entities' = [e \in DOMAIN entities \cup {LowestFree} |->
                       IF e = LowestFree THEN EmptyContainer ELSE entities[e]]
    /\ last' = Watched("addEntity", Event("addEntity", LowestFree, NoSystem, NoClass, "void"))
    /\ returned' = Returned(LowestFree)
    /\ UNCHANGED <<variant, entitiesToDestroy, systems, systemEntities, types,
                   queryEntities, control, observe, game, removals, flips>>
    /\ LogAfterCall

addEntity ==
    /\ Callable
    /\ nextEntityID < MaxEntities
    /\ nextEntityID' = nextEntityID + 1
    /\ entities' = [e \in DOMAIN entities \cup {nextEntityID} |->
                       IF e = nextEntityID THEN EmptyContainer ELSE entities[e]]
    /\ last' = Watched("addEntity", Event("addEntity", nextEntityID, NoSystem, NoClass, "void"))
    /\ returned' = Returned(nextEntityID)
    /\ UNCHANGED <<variant, entitiesToDestroy, systems, systemEntities, types,
                   queryEntities, control, observe, game, removals, flips>>
    /\ LogAfterCall

\* mutant: removeEntity destroys at once instead of queueing the id
removeEntityNow(entity) ==
    /\ Callable
    /\ Len(entitiesToDestroy) < MaxPending
    /\ IF variant = "hasAll"
       THEN /\ entities' = destroyEntity(entities, systemEntities, entity).ents
            /\ systemEntities' = destroyEntity(entities, systemEntities, entity).sets
            /\ UNCHANGED queryEntities
       ELSE /\ entities' = destroyEntityQ(entities, queryEntities, systems, entity).ents
            /\ queryEntities' = destroyEntityQ(entities, queryEntities, systems, entity).queries
            /\ UNCHANGED systemEntities
    /\ last' = Watched("removeEntity", Event("removeEntity", entity, NoSystem, NoClass,
                          IF entity \in DOMAIN entities THEN "held" ELSE "absent"))
    /\ RemovalNoted(entity)
    /\ UNCHANGED <<variant, entitiesToDestroy, nextEntityID, systems, types,
                   control, observe, returned, game, served, flips>>
    /\ LogAfterCall

removeEntity(entity) ==
    /\ Callable
    /\ Len(entitiesToDestroy) < MaxPending
    /\ entitiesToDestroy' = Append(entitiesToDestroy, entity)
    /\ last' = Watched("removeEntity", Event("removeEntity", entity, NoSystem, NoClass,
                          IF entity \in DOMAIN entities THEN "held" ELSE "absent"))
    /\ RemovalNoted(entity)
    /\ UNCHANGED <<variant, entities, nextEntityID, systems, systemEntities, types,
                   queryEntities, control, observe, returned, game, served, flips>>
    /\ LogAfterCall

\* ----------------------------------------------------- API: components
\* mutant: addComponent makes a container for an id the store does not hold
addToStoreAnyId(entity, component) ==
    [e \in DOMAIN entities \cup {entity} |->
        IF e = entity
        THEN add(IF entity \in DOMAIN entities THEN entities[entity] ELSE EmptyContainer,
                 component)
        ELSE entities[e]]

\* World.entities after this.entities.get(entity)?.add(component)
addToStore(entity, component) ==
    IF entity \in DOMAIN entities
    THEN [entities EXCEPT ![entity] = add(@, component)]
    ELSE entities

\* mutant: addComponent stores the component and leaves the result sets alone
addComponentUnchecked(entity, component) ==
    /\ Callable
    /\ entities' = addToStore(entity, component)
    /\ last' = Watched("addComponent", Event("addComponent", entity, NoSystem, component.cls,
                                             "unchecked"))
    /\ FlipsAfter(addToStore(entity, component), entity)
    /\ UNCHANGED <<variant, nextEntityID, entitiesToDestroy, systems, systemEntities,
                   queryEntities, types, control, observe, returned, game, removals>>
    /\ LogAfterCall

addComponent(entity, component) ==
    /\ Callable
    /\ entities' = addToStore(entity, component)
    /\ IF variant = "hasAll"
       THEN /\ systemEntities' = checkEntity(addToStore(entity, component),
                                             systemEntities, systems, entity)
            /\ UNCHANGED queryEntities
       ELSE IF variant = "getAll"
       THEN /\ queryEntities' = checkEntityQ(addToStore(entity, component),
                                             queryEntities, systems, entity)
            /\ UNCHANGED systemEntities
       ELSE /\ systemEntities' = checkEntity(addToStore(entity, component),
                                             systemEntities, systems, entity)
            /\ queryEntities' = checkEntityQ(addToStore(entity, component),
                                             queryEntities, systems, entity)
    /\ last' = Watched("addComponent",
                       [Event("addComponent", entity, NoSystem, component.cls,
                              IF entity \notin DOMAIN entities THEN "absent"
                              ELSE IF get(entities[entity], component.cls) = Undefined THEN "new"
                              ELSE IF get(entities[entity], component.cls) = component THEN "same"
                              ELSE "replaced")
                        EXCEPT !.inst = component.inst])
    /\ FlipsAfter(addToStore(entity, component), entity)
    /\ UNCHANGED <<variant, nextEntityID, entitiesToDestroy, systems, types,
                   control, observe, returned, game, removals>>
    /\ LogAfterCall

\* World.entities after this.entities.get(entity)?.remove(componentClass)
removeFromStore(entity, componentClass) ==
    IF entity \in DOMAIN entities
    THEN [entities EXCEPT ![entity] = remove(@, componentClass)]
    ELSE entities

\* what removeComponent returns: ...?.remove(componentClass) || false
removed(entity, componentClass) ==
    IF entity \in DOMAIN entities
    THEN removeResult(entities[entity], componentClass)
    ELSE FALSE

removeComponent(entity, componentClass) ==
    /\ Callable
    /\ entities' = removeFromStore(entity, componentClass)
    /\ IF variant = "hasAll"
       THEN /\ systemEntities' = checkEntity(removeFromStore(entity, componentClass),
                                             systemEntities, systems, entity)
            /\ UNCHANGED queryEntities
       ELSE IF variant = "getAll"
       THEN /\ queryEntities' = checkEntityQ(removeFromStore(entity, componentClass),
                                             queryEntities, systems, entity)
            /\ UNCHANGED systemEntities
       ELSE /\ systemEntities' = checkEntity(removeFromStore(entity, componentClass),
                                             systemEntities, systems, entity)
            /\ queryEntities' = checkEntityQ(removeFromStore(entity, componentClass),
                                             queryEntities, systems, entity)
    /\ last' = Watched("removeComponent",
                       Event("removeComponent", entity, NoSystem, componentClass,
                             IF removed(entity, componentClass) THEN "true" ELSE "false"))
    /\ FlipsAfter(removeFromStore(entity, componentClass), entity)
    /\ UNCHANGED <<variant, nextEntityID, entitiesToDestroy, systems, types,
                   control, observe, returned, game, removals>>
    /\ LogAfterCall

\* -------------------------------------------------------- API: systems
\* for (const entity of this.entities.keys()) this.checkEntitySystem(entity, system)
RECURSIVE seedFrom(_, _, _, _)
seedFrom(ents, sets, system, entity) ==
    IF entity >= nextEntityID THEN sets
    ELSE IF entity \notin DOMAIN ents THEN seedFrom(ents, sets, system, entity + 1)
    ELSE seedFrom(ents, checkEntitySystem(ents, sets, entity, system), system, entity + 1)

RECURSIVE seedFromQ(_, _, _, _)
seedFromQ(ents, queries, system, entity) ==
    IF entity >= nextEntityID THEN queries
    ELSE IF entity \notin DOMAIN ents THEN seedFromQ(ents, queries, system, entity + 1)
    ELSE seedFromQ(ents, checkEntitySystemQ(ents, queries, entity, system), system, entity + 1)

\* mutant: addSystem puts the system last, registered or not
registerLast(keys, system) == Append(keys, system)

\* this.systems.set(system, new Set()) (ECS.ts) / this.systems.add(system) (part_000):
\* a key the collection holds keeps its place, a new one goes last.
register(keys, system) ==
    IF system \in Range(keys) THEN keys ELSE Append(keys, system)

\* the values of World.systems after set(system, new Set())
freshSet(sets, system) ==
    [s \in DOMAIN sets \cup {system} |-> IF s = system THEN {} ELSE sets[s]]

\* mutant: addSystem without its size == 0 test
rejectsNever(system) == FALSE

\* the size == 0 test addSystem starts with
rejects(system) == Len(types[system]) = 0

addSystem(system) ==
    /\ Callable
    /\ IF rejects(system)
       THEN /\ last' = Watched("addSystem",
                               Event("addSystem", NoEntity, system, NoClass, "warn"))
            /\ UNCHANGED <<systems, systemEntities, queryEntities>>
       ELSE /\ systems' = register(systems, system)
            /\ IF variant = "hasAll"
               THEN /\ systemEntities' =
                          seedFrom(entities, freshSet(systemEntities, system), system, 0)
                    /\ UNCHANGED queryEntities
               ELSE IF variant = "getAll"
               THEN /\ queryEntities' = seedFromQ(entities, queryEntities, system, 0)
                    /\ UNCHANGED systemEntities
               ELSE /\ systemEntities' =
                          seedFrom(entities, freshSet(systemEntities, system), system, 0)
                    /\ queryEntities' = seedFromQ(entities, queryEntities, system, 0)
            /\ last' = Watched("addSystem",
                               Event("addSystem", NoEntity, system, NoClass,
                                     IF system \in Registered THEN "again" ELSE "added"))
    /\ UNCHANGED <<variant, entities, nextEntityID, entitiesToDestroy, types,
                   control, observe, returned, game, removals, flips>>
    /\ LogAfterAddSystem(system, system \in Registered /\ ~ rejects(system))

\* mutant: removeSystem leaves the keys of this.systems as they are
unregisterNone(keys, system) == keys

\* this.systems.delete(system): the keys left
unregister(keys, system) ==
    IF system \in Range(keys) THEN RemoveAt(keys, IndexOf(keys, system)) ELSE keys

\* The iterator of a running tick after a delete: an entry it had passed
\* leaves the collection, so it has passed one entry fewer.
cursorAfterDelete(keys, system) ==
    IF phase = "update" /\ system \in Range(keys) /\ IndexOf(keys, system) <= cursor
    THEN cursor - 1
    ELSE cursor

removeSystem(system) ==
    /\ Callable
    /\ systems' = unregister(systems, system)
    /\ cursor' = cursorAfterDelete(systems, system)
    /\ IF variant = "hasAll"
       THEN /\ systemEntities' = Restrict(systemEntities, DOMAIN systemEntities \ {system})
            /\ UNCHANGED <<types, queryEntities>>
       ELSE /\ types' = [types EXCEPT ![system] = << >>]
            /\ queryEntities' = [queryEntities EXCEPT ![system] = << >>]
            /\ UNCHANGED systemEntities
    /\ last' = Watched("removeSystem",
                       Event("removeSystem", NoEntity, system, NoClass,
                             IF system \in Registered THEN "removed" ELSE "unknown"))
    /\ UNCHANGED <<variant, entities, nextEntityID, entitiesToDestroy,
                   phase, running, observe, returned, game, removals, flips>>
    /\ LogAfterCall

\* ------------------------------------------------------------------ tick
\* mutant: tick returns after its for loop, the while loop lost
loopHeadNoDrain(passed, log) ==
    IF passed < Len(systems)
    THEN /\ phase' = "update"
         /\ cursor' = passed + 1
         /\ running' = systems[passed + 1]
         /\ calls' = Logged(log, Event("update", NoEntity, systems[passed + 1], NoClass, "void"))
         /\ last' = Watched("update",
                            Event("update", NoEntity, systems[passed + 1], NoClass, "void"))
         /\ UNCHANGED <<removals, flips>>
    ELSE /\ cursor' = 0
         /\ running' = NoSystem
         /\ calls' = log
         /\ phase' = "idle"
         /\ last' = Watched("tick", Event("tick", NoEntity, NoSystem, NoClass, "void"))
         /\ TickReturns

\* mutant: the for loop of tick stops one system short
loopHeadShort(passed, log) ==
    IF passed + 1 < Len(systems)
    THEN /\ phase' = "update"
         /\ cursor' = passed + 1
         /\ running' = systems[passed + 1]
         /\ calls' = Logged(log, Event("update", NoEntity, systems[passed + 1], NoClass, "void"))
         /\ last' = Watched("update",
                            Event("update", NoEntity, systems[passed + 1], NoClass, "void"))
         /\ UNCHANGED <<removals, flips>>
    ELSE /\ cursor' = 0
         /\ running' = NoSystem
         /\ calls' = log
         /\ IF Len(entitiesToDestroy) > 0
            THEN /\ phase' = "destroy"
                 /\ last' = Watched("drain", Event("drain", NoEntity, NoSystem, NoClass, "void"))
                 /\ UNCHANGED <<removals, flips>>
            ELSE /\ phase' = "idle"
                 /\ last' = Watched("tick", Event("tick", NoEntity, NoSystem, NoClass, "void"))
                 /\ TickReturns

\* The head of tick's two loops, with `passed` entries of this.systems behind
\* the iterator and `log` what the tick did so far: the next system's update
\* is invoked with its result set; with no system left the while loop
\* starts, and with nothing to destroy tick returns.
loopHead(passed, log) ==
    IF passed < Len(systems)
    THEN /\ phase' = "update"
         /\ cursor' = passed + 1
         /\ running' = systems[passed + 1]
         /\ calls' = Logged(log, Event("update", NoEntity, systems[passed + 1], NoClass, "void"))
         /\ last' = Watched("update",
                            Event("update", NoEntity, systems[passed + 1], NoClass, "void"))
         /\ UNCHANGED <<removals, flips>>
    ELSE /\ cursor' = 0
         /\ running' = NoSystem
         /\ calls' = log
         /\ IF Len(entitiesToDestroy) > 0
            THEN /\ phase' = "destroy"
                 /\ last' = Watched("drain", Event("drain", NoEntity, NoSystem, NoClass, "void"))
                 /\ UNCHANGED <<removals, flips>>
            ELSE /\ phase' = "idle"
                 /\ last' = Watched("tick", Event("tick", NoEntity, NoSystem, NoClass, "void"))
                 /\ TickReturns

tick ==
    /\ phase = "idle"
    /\ loopHead(0, LogAtStart)
    /\ UNCHANGED <<world, observe, returned, game>>

\* the running system's update() returns and the for loop goes on
updateReturn ==
    /\ phase = "update"
    /\ loopHead(cursor, calls)
    /\ UNCHANGED <<world, observe, returned, game>>

\* mutant: the while loop destroys the first pending id, pop() taking the last
first(array) == array[1]

\* the array after pop(), and what pop() returns
popped(array) == SubSeq(array, 1, Len(array) - 1)

top(array) == array[Len(array)]

\* one turn of while (length > 0) this.destroyEntity(pop())
destroyNext ==
    /\ phase = "destroy"
    /\ entitiesToDestroy' = popped(entitiesToDestroy)
    /\ IF variant = "hasAll"
       THEN /\ entities' = destroyEntity(entities, systemEntities, top(entitiesToDestroy)).ents
            /\ systemEntities' =
                  destroyEntity(entities, systemEntities, top(entitiesToDestroy)).sets
            /\ UNCHANGED queryEntities
       ELSE IF variant = "getAll"
       THEN /\ entities' =
                  destroyEntityQ(entities, queryEntities, systems, top(entitiesToDestroy)).ents
            /\ queryEntities' =
                  destroyEntityQ(entities, queryEntities, systems, top(entitiesToDestroy)).queries
            /\ UNCHANGED systemEntities
       ELSE /\ entities' = destroyEntity(entities, systemEntities, top(entitiesToDestroy)).ents
            /\ systemEntities' =
                  destroyEntity(entities, systemEntities, top(entitiesToDestroy)).sets
            /\ queryEntities' =
                  destroyEntityQ(entities, queryEntities, systems, top(entitiesToDestroy)).queries
    /\ calls' = Logged(calls, Event("destroyEntity", top(entitiesToDestroy), NoSystem, NoClass,
                          IF top(entitiesToDestroy) \in DOMAIN entities THEN "held" ELSE "absent"))
    /\ IF Len(entitiesToDestroy') > 0
       THEN /\ phase' = "destroy"
            /\ last' = Watched("destroyEntity", Event("destroyEntity", top(entitiesToDestroy),
                                             NoSystem, NoClass, "void"))
            /\ UNCHANGED <<removals, flips>>
       ELSE /\ phase' = "idle"
            /\ last' = Watched("tick", Event("tick", NoEntity, NoSystem, NoClass, "void"))
            /\ TickReturns
    /\ UNCHANGED <<variant, nextEntityID, systems, types, cursor, running, observe,
                   returned, game>>

\* --------------------------------------------------------- Rectangles.ts
\* Numbers are integers: positions and sizes in pixels, time in the unit
\* Engine.delta is a whole number of.
Positions == 0 .. CanvasSize
Speeds == (0 - MaxSpeed) .. MaxSpeed
Sizes == {1, 2}
Rects == [translation : Positions \X Positions,
          dimensionable : [width : Sizes, height : {1}],
          velocity : Speeds \X Speeds]
Engines == [delta : 0 .. MaxDelta, width : {CanvasSize}, height : {CanvasSize}]

\* translation.value[i] += velocity.value[i] * delta
moved(position, velocity, delta) == position + velocity * delta

\* the test of the two if statements of RectangleMover.update, on the
\* position already moved
bounces(position, velocity, size, bound) ==
    \/ (position <= 0 /\ velocity < 0)
    \/ (position + size >= bound /\ velocity > 0)

\* velocity.value[i] after the if statement
bounced(position, velocity, size, bound) ==
    IF bounces(position, velocity, size, bound) THEN velocity * (0 - 1) ELSE velocity

\* RectangleMover.update for the tuple of one rectangle
update ==
    /\ rect' = [translation |->
                    <<moved(rect.translation[1], rect.velocity[1], engine.delta),
                      moved(rect.translation[2], rect.velocity[2], engine.delta)>>,
                dimensionable |-> rect.dimensionable,
                velocity |->
                    <<bounced(moved(rect.translation[1], rect.velocity[1], engine.delta),
                              rect.velocity[1], rect.dimensionable.width, engine.width),
                      bounced(moved(rect.translation[2], rect.velocity[2], engine.delta),
                              rect.velocity[2], rect.dimensionable.height, engine.height)>>]
    /\ UNCHANGED <<world, control, observe, last, calls, removals, flips, returned, engine,
                   shaders, cleared>>

\* ------------------------------------------------- Engine.ts: shader API
\* Engine.getShader: shaders.get(name)
getShader(name) == IF name \in DOMAIN shaders THEN shaders[name] ELSE NoShader

\* Shader.clear of the shader under `name`, if there is one (shader?.clear):
\* the instances whose program is deleted after it
clear(name) == IF name \in DOMAIN shaders THEN cleared \cup {shaders[name]} ELSE cleared

\* Engine.unsetShader
unsetShader(name) ==
    /\ shaders' = Restrict(shaders, DOMAIN shaders \ {name})
    /\ cleared' = clear(name)
    /\ UNCHANGED <<world, control, observe, last, calls, removals, flips, returned, rect,
                   engine>>

\* Engine.setShader: unsetShader(name), then shaders.set(name, shader)
setShader(name, shader) ==
    /\ shaders' = [n \in DOMAIN shaders \cup {name} |->
                      IF n = name THEN shader ELSE shaders[n]]
    /\ cleared' = clear(name)
    /\ UNCHANGED <<world, control, observe, last, calls, removals, flips, returned, rect,
                   engine>>

\* --------------------------------------------------------- specification
Observer(kind) == [kind |-> kind, entity |-> NoEntity, system |-> NoSystem]

FlipObservers ==
    [kind : {"flips"}, entity : EntityIds, system : {s \in Systems : Len(Declared(s)) > 0}]

\* The World after construction, watched by one of the observers `modes`.
WorldOf(variants, modes) ==
    /\ variant \in variants
    /\ entities = << >>
    /\ nextEntityID = 0
    /\ entitiesToDestroy = << >>
    /\ systems = << >>
    /\ systemEntities = << >>
    /\ types = [s \in Systems |-> Declared(s)]
    /\ queryEntities = [s \in Systems |-> << >>]
    /\ phase = "idle"
    /\ cursor = 0
    /\ running = NoSystem
    /\ observe \in modes
    /\ last = Quiet
    /\ calls = << >>
    /\ removedBefore = {}
    /\ removedInTick = {}
    /\ served = {}
    /\ gained = {}
    /\ lost = {}
    /\ returned = << >>

WorldInit(modes) == WorldOf(Variants, modes)

\* A World with no game set up on it: the rectangle and the engine stay as
\* they are constructed.
Init(modes) ==
    /\ WorldInit(modes)
    /\ rect = [translation |-> <<0, 0>>, dimensionable |-> [width |-> 0, height |-> 0],
               velocity |-> <<0, 0>>]
    /\ engine = [delta |-> 0, width |-> 0, height |-> 0]
    /\ shaders = << >>
    /\ cleared = {}

Next ==
    \/ addEntity
    \/ \E entity \in EntityIds : removeEntity(entity)
    \/ \E entity \in EntityIds, component \in Components : addComponent(entity, component)
    \/ \E entity \in EntityIds, cls \in Classes : removeComponent(entity, cls)
    \/ \E system \in Systems : addSystem(system)
    \/ \E system \in Systems : removeSystem(system)
    \/ tick
    \/ updateReturn
    \/ destroyNext

\* Next with the registry left alone while a tick runs: the updates call
\* addEntity, removeEntity, addComponent and removeComponent only.
NextPass ==
    \/ addEntity
    \/ \E entity \in EntityIds : removeEntity(entity)
    \/ \E entity \in EntityIds, component \in Components : addComponent(entity, component)
    \/ \E entity \in EntityIds, cls \in Classes : removeComponent(entity, cls)
    \/ \E system \in Systems : phase = "idle" /\ addSystem(system)
    \/ \E system \in Systems : phase = "idle" /\ removeSystem(system)
    \/ tick
    \/ updateReturn
    \/ destroyNext

\* Next without removeSystem: the calls both snapshots take alike, the
\* required classes of a system being one object the two Worlds share.
NextSideBySide ==
    \/ addEntity
    \/ \E entity \in EntityIds : removeEntity(entity)
    \/ \E entity \in EntityIds, component \in Components : addComponent(entity, component)
    \/ \E entity \in EntityIds, cls \in Classes : removeComponent(entity, cls)
    \/ \E system \in Systems : addSystem(system)
    \/ tick
    \/ updateReturn
    \/ destroyNext

\* A World of each snapshot, constructed side by side. The store, the id
\* counter and the pending list are kept once: the code that writes them is
\* the same in both snapshots.
InitSideBySide ==
    /\ WorldOf({"both"}, {Observer("none")})
    /\ rect = [translation |-> <<0, 0>>, dimensionable |-> [width |-> 0, height |-> 0],
               velocity |-> <<0, 0>>]
    /\ engine = [delta |-> 0, width |-> 0, height |-> 0]
    /\ shaders = << >>
    /\ cleared = {}

\* A rectangle created on a canvas, and the delta of the frames that follow.
InitBounce ==
    /\ WorldInit({Observer("none")})
    /\ variant = "getAll"
    /\ rect \in Rects
    /\ engine \in Engines
    /\ shaders = << >>
    /\ cleared = {}

\* An Engine after construction, and the calls of its shader API. A caller
\* hands setShader a Shader whose clear() has not been called.
InitShaders ==
    /\ Init({Observer("none")})
    /\ variant = "hasAll"

NextShaders ==
    \/ \E name \in ShaderNames, shader \in ShaderIds \ cleared : setShader(name, shader)
    \/ \E name \in ShaderNames : unsetShader(name)

NextBounce == update

InitPlain == Init({Observer("none")})
InitRemovals == Init({Observer("removals")})
InitFlips == Init(FlipObservers)
InitTick == Init({Observer("tick")})
InitAddComponent == Init({Observer("addComponent")})
InitAddSystem == Init({Observer("addSystem")})
InitRemoveSystem == Init({Observer("removeSystem")})
InitRemoveComponent == Init({Observer("removeComponent")})
InitAddEntity == Init({Observer("addEntity")})
InitComponents == Init({Observer("components")})
InitRegistry == Init({Observer("registry")})
InitSchedule == Init({Observer("schedule")})

Spec == InitPlain /\ [][Next]_vars
SpecRemovals == InitRemovals /\ [][Next]_vars
SpecFlips == InitFlips /\ [][Next]_vars
SpecAddComponent == InitAddComponent /\ [][Next]_vars
SpecAddSystem == InitAddSystem /\ [][Next]_vars
SpecRemoveSystem == InitRemoveSystem /\ [][Next]_vars
SpecRemoveComponent == InitRemoveComponent /\ [][Next]_vars
SpecAddEntity == InitAddEntity /\ [][Next]_vars
SpecComponents == InitComponents /\ [][Next]_vars
SpecRegistry == InitRegistry /\ [][Next]_vars
SpecBounce == InitBounce /\ [][NextBounce]_vars
SpecSideBySide == InitSideBySide /\ [][NextSideBySide]_vars
SpecShaders == InitShaders /\ [][NextShaders]_vars
SpecTick == InitTick /\ [][NextPass]_vars
SpecSchedule == InitSchedule /\ [][NextPass]_vars
\* tick runs to completion: nothing suspends its while loop
SpecTickFair == SpecTick /\ WF_vars(destroyNext)

\* ------------------------------------------------------------- claims
\* C1. Query correctness: in every state, between any two World calls, inside
\* a tick between two updates and between two destructions, an entity is in
\* a registered system's result set exactly when the store holds it and its
\* container holds every class the system requires. In ECS.ts the Map holds
\* a result set for the registered systems and no other.
C1_QueryCorrect ==
    /\ \A s \in Registered : \A e \in EntityIds :
           e \in ResultSet(s) <=> Matches(entities, e, s)
    /\ variant = "hasAll" => DOMAIN systemEntities = Registered

\* C1 witness: inside a tick, a component call of an earlier update has made
\* the observed entity match a system that has not run yet, while the other
\* registered system holds an entity the first does not.
C1_Witness ==
    /\ phase = "update"
    /\ Len(systems) = 2
    /\ cursor = 1
    /\ \E t \in gained : t[2] = systems[2] /\ t[1] \in ResultSet(systems[2])
    /\ ResultSet(systems[1]) # ResultSet(systems[2])
    /\ Cardinality(DOMAIN entities) = 2

\* The store holds `entity` and every registered system whose required
\* classes it holds has it in its result set.
Held(entity) ==
    /\ entity \in DOMAIN entities
    /\ \A s \in Registered : Matches(entities, entity, s) => entity \in ResultSet(s)

\* C2. Deferred destruction: no step taken while tick runs the updates, the
\* removeEntity call itself and the end of the for loop included, takes an
\* entity an update of this tick called removeEntity for out of the store or
\* out of the result set of a system whose required classes it holds.
C2_DeferredDestruction ==
    [][phase = "update" =>
          \A r \in removedInTick' : r[1] \in DOMAIN entities => Held(r[1])']_vars

\* C2 witness: the running update finds in its result set an entity that the
\* update of a system that ran before it called removeEntity for.
C2_Witness ==
    /\ phase = "update"
    /\ running \in Registered
    /\ \E r \in removedInTick : r[2] # running /\ r[1] \in ResultSet(running)

\* The store holds no container for `entity` and no registered system has it.
Absent(entity) ==
    /\ entity \notin DOMAIN entities
    /\ getComponents(entity) = Undefined
    /\ \A s \in Registered : entity \notin ResultSet(s)

\* C3. When tick returns, every entity id removeEntity was called for before
\* or during that tick (in this or an earlier tick; an id is an entity id once
\* addEntity has returned it, and the calls noted are the calls for entity
\* ids) is absent from the store and from every registered system's result
\* set.
C3_GoneWhenTickReturns ==
    [][phase # "idle" /\ phase' = "idle" => \A e \in served' : Absent(e)']_vars

\* C3 witness: a tick has returned that served a removeEntity call, and left
\* another entity in the store and in a result set.
C3_Witness ==
    /\ phase = "idle"
    /\ entitiesToDestroy = << >>
    /\ removedBefore = {}
    /\ served # {}
    /\ \E s \in Registered : ResultSet(s) # {}

\* C4. Mid-tick visibility: while a system's update runs, from the moment tick
\* invokes it, its result set holds the observed entity if a component call
\* made by the update of a system that ran earlier in the same tick made the
\* entity match its required classes, and does not hold it if such a call
\* ended the match.
C4_MidTickVisible ==
    (phase = "update" /\ running \in Registered) =>
        /\ \A t \in gained : (t[2] = running /\ t[3] # running) => t[1] \in ResultSet(running)
        /\ \A t \in lost : (t[2] = running /\ t[3] # running) => t[1] \notin ResultSet(running)

\* C4 witness: the running system has in its result set an entity that an
\* addComponent of an earlier update of this tick made match.
C4_Witness ==
    /\ phase = "update"
    /\ running \in Registered
    /\ \E t \in gained : t[2] = running /\ t[3] # running /\ t[1] \in ResultSet(running)

\* `system` requires no component class.
RequiresNothing(system) == Range(types[system]) = {}

\* C5. Empty-requirement rejection: an addSystem call for a system that
\* requires no class warns and leaves the World as it was (registered
\* systems, store, containers, result sets, pending destructions); such a
\* system is not registered by any step and no tick invokes its update.
C5_EmptyRejected ==
    [][/\ (last'.op = "addSystem" /\ RequiresNothing(last'.system))
            => (last'.note = "warn" /\ UNCHANGED world)
       /\ \A s \in Systems : RequiresNothing(s) =>
               /\ s \notin Registered'
               /\ ~ (last'.op = "update" /\ last'.system = s)]_vars

\* C5 witness: addSystem has warned inside a tick of a World that holds an
\* entity in the result set of the running system.
C5_Witness ==
    /\ last.op = "addSystem"
    /\ last.note = "warn"
    /\ RequiresNothing(last.system)
    /\ phase = "update"
    /\ running \in Registered
    /\ ResultSet(running) # {}

\* C6. Overwrite semantics: an addComponent call for an entity of the store
\* leaves its container with the classes it held and the class of the
\* instance passed, an entry each; get of that class returns the instance
\* passed, whether or not the container held another instance of the class
\* (instance A added, then instance B); the entries of the other classes and
\* the other containers are unchanged.
C6_Overwrite ==
    [][(last'.op = "addComponent" /\ last'.entity \in DOMAIN entities) =>
          /\ DOMAIN entities' = DOMAIN entities
          /\ DOMAIN entities'[last'.entity] = DOMAIN entities[last'.entity] \cup {last'.cls}
          /\ get(entities'[last'.entity], last'.cls) = [cls |-> last'.cls, inst |-> last'.inst]
          /\ \A cls \in Classes \ {last'.cls} :
                 get(entities'[last'.entity], cls) = get(entities[last'.entity], cls)
          /\ \A e \in DOMAIN entities \ {last'.entity} : entities'[e] = entities[e]]_vars

\* C6 witness: instance B has replaced instance A of Translation in a
\* container that holds a Velocity as well.
C6_Witness ==
    /\ last.op = "addComponent"
    /\ last.note = "replaced"
    /\ last.inst = "B"
    /\ last.entity \in DOMAIN entities
    /\ get(entities[last.entity], last.cls) = [cls |-> "Translation", inst |-> "B"]
    /\ has(entities[last.entity], "Velocity")

\* the update() calls of the systems `keys`, one each, in the order of `keys`
UpdatesOf(keys) ==
    [i \in 1 .. Len(keys) |-> Event("update", NoEntity, keys[i], NoClass, "void")]

\* C7. Tick ordering, the updates calling addEntity, addComponent,
\* removeComponent and removeEntity: while the for loop of tick runs, the
\* tick has invoked the systems up to the running one, once each in
\* registration order; once it destroys, and when it returns, it has invoked
\* every registered system once in registration order and everything it did
\* after the last update is a destruction.
C7_TickOrder ==
    /\ phase = "update" => calls = UpdatesOf(SubSeq(systems, 1, cursor))
    /\ (phase = "destroy" \/ (phase = "idle" /\ last.op = "tick")) =>
           /\ Len(calls) >= Len(systems)
           /\ SubSeq(calls, 1, Len(systems)) = UpdatesOf(systems)
           /\ \A i \in (Len(systems) + 1) .. Len(calls) : calls[i].op = "destroyEntity"

\* C7 witness: a tick of two systems has returned after destroying two
\* entities, one of them in the store until then.
C7_Witness ==
    /\ phase = "idle"
    /\ last.op = "tick"
    /\ Len(systems) = 2
    /\ Len(calls) = 4
    /\ \E i \in 3 .. 4 : calls[i].op = "destroyEntity" /\ calls[i].note = "held"

\* C8. Drain completeness: whatever the pending destructions are (an id
\* pushed twice, the id of an entity the store does not hold), the while
\* loop of tick ends, and entitiesToDestroy is empty when tick returns.
C8_DrainComplete ==
    /\ [](phase = "idle" /\ last.op = "tick" => entitiesToDestroy = << >>)
    /\ (phase = "destroy" ~> (phase = "idle" /\ entitiesToDestroy = << >>))

\* C8 witness: tick has returned after draining an id that was pending
\* twice, the second time for an entity the store no longer held.
C8_Witness ==
    /\ phase = "idle"
    /\ last.op = "tick"
    /\ entitiesToDestroy = << >>
    /\ \E i, j \in DOMAIN calls :
           /\ i < j
           /\ calls[i].op = "destroyEntity" /\ calls[i].note = "held"
           /\ calls[j].op = "destroyEntity" /\ calls[j].note = "absent"
           /\ calls[i].entity = calls[j].entity

\* C9 as stated: while a tick runs, no result set holds an entity removeEntity
\* was called for before that tick started, between two ticks or inside an
\* update of an earlier tick.
C9_GoneFromNextTick ==
    phase # "idle" =>
        \A e \in removedBefore \cup served : \A s \in Registered : e \notin ResultSet(s)

\* C9, amended. Once the first tick to return after a removeEntity(E) call
\* has returned, no result set holds E, in that state and in every later one:
\* inside every later tick, between ticks, and in the result set a system
\* registered later is seeded with.
C9_GoneOnceDrained ==
    \A e \in served : \A s \in Registered : e \notin ResultSet(s)

\* C9 witness: a later tick invokes a system with an entity in its result
\* set, after a tick has drained the removeEntity call for another.
C9_Witness ==
    /\ phase = "update"
    /\ served # {}
    /\ running \in Registered
    /\ ResultSet(running) # {}
    /\ ResultSet(running) \cap served = {}

\* `keys` without `system`, the others in the order they had
Without(keys, system) == SelectSeq(keys, LAMBDA key : key # system)

\* `system` has no result set left: no entry of the Map (ECS.ts), an empty
\* query.entities (part_000).
Discarded(system) ==
    IF variant = "hasAll" THEN system \notin DOMAIN systemEntities
    ELSE queryEntities[system] = << >>

C11_RequiredSetImmutable == [][types' = types]_vars

\* C12. removeComponent(E, T) returns true exactly when the store holds E and
\* E's container held an entry for T before the call; after a call for an
\* entity of the store the container has no entry for T and the entries of
\* the other classes are the ones it had; a call that returns false leaves
\* the store, every container and every result set as they were.
C12_RemoveComponent ==
    [][\A e \in EntityIds, cls \in Classes :
          (last'.op = "removeComponent" /\ last'.entity = e /\ last'.cls = cls) =>
              /\ last'.note = "true" <=> (e \in DOMAIN entities /\ cls \in DOMAIN entities[e])
              /\ DOMAIN entities' = DOMAIN entities
              /\ e \in DOMAIN entities =>
                    /\ get(entities'[e], cls) = Undefined
                    /\ DOMAIN entities'[e] = DOMAIN entities[e] \ {cls}
                    /\ \A other \in Classes \ {cls} :
                           get(entities'[e], other) = get(entities[e], other)
              /\ \A other \in DOMAIN entities \ {e} : entities'[other] = entities[other]
              /\ last'.note = "false" =>
                    UNCHANGED <<entities, systems, systemEntities, queryEntities>>]_vars

\* C12 witness: removeComponent has returned true for the Velocity of an
\* entity that keeps its Translation: Mover has lost it, Tracker holds it.
C12_Witness ==
    /\ last.op = "removeComponent"
    /\ last.note = "true"
    /\ last.cls = "Velocity"
    /\ last.entity \in DOMAIN entities
    /\ has(entities[last.entity], "Translation")
    /\ Registered = {"Mover", "Tracker"}
    /\ last.entity \in ResultSet("Tracker")
    /\ last.entity \notin ResultSet("Mover")

\* C13. Entity ids are unique and never reused: the first id addEntity
\* returns is 0 and every later one is greater than every id returned before
\* it, whatever removeEntity calls and ticks come in between; so no id is
\* returned twice, the id of a destroyed entity included.
C13_IdsNeverReused ==
    /\ returned # << >> => returned[1] = 0
    /\ \A i, j \in DOMAIN returned : i < j => returned[i] < returned[j]

\* C13 witness: addEntity has just returned a second id, the entity of the
\* first one destroyed by a tick before the call.
C13_Witness ==
    /\ last.op = "addEntity"
    /\ Len(returned) = 2
    /\ last.entity = returned[2]
    /\ returned[1] \notin DOMAIN entities
    /\ returned[2] \in DOMAIN entities

\* the instances the store holds for `entity`, one per class `system`
\* declares, in the order of the declaration
CurrentTuple(entity, system) ==
    [i \in 1 .. Len(Declared(system)) |-> get(entities[entity], Declared(system)[i])]

\* C14. Result tuples are current (part_000): in every state, for every
\* registered system and every entity of its result set, the store holds the
\* entity and the tuple kept for it lists the instances its container holds
\* now for the classes the system declares, in declaration order; so after
\* an instance is replaced by another of its class the tuple holds the new
\* one.
C14_TuplesCurrent ==
    variant = "getAll" =>
        \A s \in Registered : \A e \in DOMAIN queryEntities[s] :
            /\ e \in DOMAIN entities
            /\ queryEntities[s][e] = CurrentTuple(e, s)
            /\ \A i \in DOMAIN queryEntities[s][e] : queryEntities[s][e][i] # Undefined

\* C14 witness: instance B has replaced instance A of Translation on an
\* entity Mover and Tracker hold, and both tuples list B.
C14_Witness ==
    /\ variant = "getAll"
    /\ last.op = "addComponent"
    /\ last.note = "replaced"
    /\ last.inst = "B"
    /\ Registered = {"Mover", "Tracker"}
    /\ last.entity \in DOMAIN queryEntities["Mover"]
    /\ queryEntities["Mover"][last.entity] =
           <<[cls |-> "Velocity", inst |-> "A"], [cls |-> "Translation", inst |-> "B"]>>
    /\ queryEntities["Tracker"][last.entity] = <<[cls |-> "Translation", inst |-> "B"]>>

\* the sequences of classes a caller hands to getAll and hasAll: empty, with
\* a class twice, with a class the container does not hold
TypeLists == UNION {[1 .. n -> Classes] : n \in 0 .. MaxTypes}

\* C15. For every container of the store and every sequence of classes,
\* getAll returns null exactly when hasAll is false; otherwise it returns one
\* instance per class of the sequence, in the order of the sequence, the
\* i-th being get of the i-th class.
C15_GetAllAgreesWithHasAll ==
    \A e \in DOMAIN entities : \A classes \in TypeLists :
        /\ getAll(entities[e], classes) = Null <=> ~ hasAll(entities[e], classes)
        /\ hasAll(entities[e], classes) =>
              /\ Len(getAll(entities[e], classes)) = Len(classes)
              /\ \A i \in DOMAIN classes :
                     /\ getAll(entities[e], classes)[i] = get(entities[e], classes[i])
                     /\ getAll(entities[e], classes)[i] # Undefined

\* C15 witness: a container holds instance B of Translation and no Velocity;
\* getAll of Translation twice returns B twice, getAll of a sequence with
\* Velocity returns null, getAll of the empty sequence the empty array.
C15_Witness ==
    \E e \in DOMAIN entities :
        /\ DOMAIN entities[e] = {"Translation"}
        /\ getAll(entities[e], <<"Translation", "Translation">>) =
               <<[cls |-> "Translation", inst |-> "B"], [cls |-> "Translation", inst |-> "B"]>>
        /\ getAll(entities[e], <<"Translation", "Velocity">>) = Null
        /\ ~ hasAll(entities[e], <<"Translation", "Velocity">>)
        /\ getAll(entities[e], << >>) = << >>

\* The store and the result sets after destroyEntity is called for the ids
\* of `order`, first to last, from the store `ents` and the result sets
\* `sets` (ECS.ts) and `queries` (part_000).
RECURSIVE DrainedFrom(_, _, _, _)
DrainedFrom(ents, sets, queries, order) ==
    IF order = << >> THEN [ents |-> ents, sets |-> sets, queries |-> queries]
    ELSE IF variant = "hasAll"
         THEN DrainedFrom(destroyEntity(ents, sets, Head(order)).ents,
                          destroyEntity(ents, sets, Head(order)).sets,
                          queries, Tail(order))
         ELSE DrainedFrom(destroyEntityQ(ents, queries, systems, Head(order)).ents,
                          sets,
                          destroyEntityQ(ents, queries, systems, Head(order)).queries,
                          Tail(order))

Drained(order) == DrainedFrom(entities, systemEntities, queryEntities, order)

\* the orders the pending ids can be processed in
Orders(pending) ==
    {[i \in DOMAIN pending |-> pending[p[i]]] :
        p \in {q \in [DOMAIN pending -> DOMAIN pending] :
                  \A i, j \in DOMAIN pending : q[i] = q[j] => i = j}}

\* the order of the while loop of tick: pop() takes the last id first
StackOrder(pending) == [i \in DOMAIN pending |-> pending[Len(pending) + 1 - i]]

\* C16. Destruction order is not significant: in every state, whatever ids
\* are pending, draining them in any order leaves the store and every result
\* set as draining them in the stack order of tick does.
C16_OrderInsignificant ==
    \A order \in Orders(entitiesToDestroy) :
        Drained(order) = Drained(StackOrder(entitiesToDestroy))

\* C16 witness: the drain of a tick starts with two entities pending, both in
\* the store and in a result set.
C16_Witness ==
    /\ phase = "destroy"
    /\ Len(entitiesToDestroy) = 2
    /\ entitiesToDestroy[1] # entitiesToDestroy[2]
    /\ Range(entitiesToDestroy) \subseteq DOMAIN entities
    /\ \E s \in Registered : Range(entitiesToDestroy) \subseteq ResultSet(s)
    /\ Drained(entitiesToDestroy).ents = << >>

\* C17. Bounce boundary: an update of a rectangle whose x-position is 0 and
\* whose x-velocity is negative flips the sign of the x-velocity and leaves
\* the x-position at 0 or above.
C17_BounceAtZero ==
    [][(rect.translation[1] = 0 /\ rect.velocity[1] < 0) =>
          /\ rect'.velocity[1] = 0 - rect.velocity[1]
          /\ rect'.translation[1] >= 0]_vars

\* C18. The drain destroys only entities that existed when removeEntity was
\* called for them: a step takes an entity out of the store only if, since
\* the last return of tick, removeEntity was called for its id when addEntity
\* had already returned that id.
C18_DestroysOnlyExisting ==
    [][\A e \in DOMAIN entities \ DOMAIN entities' :
          e \in removedBefore \cup {r[1] : r \in removedInTick}]_vars

\* the World state a call on an id can touch
touched == <<entities, nextEntityID, entitiesToDestroy, systems, systemEntities, queryEntities>>

\* C19. Calls on an id the store does not hold, never returned by addEntity or
\* destroyed by a drain, are no-ops: addComponent and removeComponent leave
\* the store and every result set as they were, removeComponent returns
\* false, and getComponents returns undefined. After every step an id the
\* store does not hold is in no result set, and an id whose entity was
\* destroyed is never in the store again.
C19_AbsentIdNoOp ==
    [][/\ \A e \in EntityIds \ DOMAIN entities :
             (last'.op \in {"addComponent", "removeComponent"} /\ last'.entity = e) =>
                 /\ UNCHANGED touched
                 /\ last'.op = "removeComponent" => last'.note = "false"
       /\ \A e \in EntityIds \ DOMAIN entities' :
             /\ getComponents(e)' = Undefined
             /\ \A s \in Registered' : e \notin ResultSet(s)'
       /\ \A e \in 0 .. (nextEntityID - 1) :
             e \notin DOMAIN entities => e \notin DOMAIN entities']_vars

\* C19 witness: addComponent has been called for the id of a destroyed
\* entity, in a World with an entity in a result set.
C19_Witness ==
    /\ last.op = "addComponent"
    /\ last.note = "absent"
    /\ last.entity < nextEntityID
    /\ last.entity \notin DOMAIN entities
    /\ \E s \in Registered : ResultSet(s) # {}

\* C20. Re-registration round trip, in both snapshots: addSystem(S) called
\* right after a removeSystem(S) that unregistered S does not warn, leaves S
\* registered, and seeds its result set with exactly the entities of the
\* store that hold every class S declares.
C20_ReRegistration ==
    [][\A s \in Systems :
          (/\ last.op = "removeSystem" /\ last.note = "removed" /\ last.system = s
           /\ last'.op = "addSystem" /\ last'.system = s) =>
              /\ last'.note = "added"
              /\ s \in Registered'
              /\ ResultSet(s)' =
                     {e \in DOMAIN entities' : Range(Declared(s)) \subseteq DOMAIN entities'[e]}]_vars

\* C21. The two snapshots agree on membership: with the same calls of
\* addEntity, removeEntity, addComponent, removeComponent, addSystem and tick
\* made on a World of each, after every call and every step of tick the Map
\* of ECS.ts has a Set for the registered systems and no other, and for
\* every registered system the keys of its query.entities in part_000 are
\* the ids of that Set.
C21_SameMembership ==
    variant = "both" =>
        /\ DOMAIN systemEntities = Registered
        /\ \A s \in Registered : DOMAIN queryEntities[s] = systemEntities[s]

\* C21 witness: inside a tick of the two Worlds, with a removeEntity
\* pending, Mover and Tracker hold different sets of entities, alike in both
\* Worlds.
C21_Witness ==
    /\ variant = "both"
    /\ phase = "update"
    /\ Registered = {"Mover", "Tracker"}
    /\ entitiesToDestroy # << >>
    /\ systemEntities["Mover"] # {}
    /\ systemEntities["Tracker"] # systemEntities["Mover"]
    /\ DOMAIN queryEntities["Tracker"] = systemEntities["Tracker"]
    /\ DOMAIN queryEntities["Mover"] = systemEntities["Mover"]

\* how many times the log has the update of `system`
Invoked(log, system) ==
    Cardinality({i \in DOMAIN log : log[i].op = "update" /\ log[i].system = system})

\* C22. addSystem(S) for a registered S, called between ticks: the registered
\* systems and their order are as before, S once among them; S's result set
\* after the call is the set of entities of the store that hold every class S
\* requires, the other result sets and the store are unchanged. The tick that
\* follows the call invokes every registered system once in that order, S
\* among them once.
C22_AddSystemAgain ==
    [][/\ \A s \in Registered :
             (last'.op = "addSystem" /\ last'.system = s) =>
                 /\ last'.note = "again"
                 /\ systems' = systems
                 /\ Cardinality({i \in DOMAIN systems' : systems'[i] = s}) = 1
                 /\ ResultSet(s)' = {e \in EntityIds : Matches(entities, e, s)}
                 /\ \A other \in Registered \ {s} : ResultSet(other)' = ResultSet(other)
                 /\ UNCHANGED <<entities, nextEntityID, entitiesToDestroy>>
       /\ (phase' = "idle" /\ last'.op = "tick" /\ calls' # << >>
              /\ calls'[1].op = "addSystem") =>
                 /\ Invoked(calls', calls'[1].system) = 1
                 /\ SubSeq(calls', 2, Len(systems') + 1) = UpdatesOf(systems')
                 /\ \A i \in (Len(systems') + 2) .. Len(calls') :
                        calls'[i].op = "destroyEntity"]_vars

\* C22 witness: the tick that followed an addSystem for the first of two
\* registered systems has returned, the system holding an entity.
C22_Witness ==
    /\ phase = "idle"
    /\ last.op = "tick"
    /\ Len(systems) = 2
    /\ Len(calls) >= 3
    /\ calls[1].op = "addSystem"
    /\ calls[1].system = systems[1]
    /\ calls[2].system = systems[1]
    /\ ResultSet(systems[1]) # {}

\* C23. addEntity changes the id counter and the store entry of the new id
\* and nothing else: the id returned was not in the store, its container has
\* no entry, no registered system has it in its result set; the containers
\* the store held, the registered systems, their result sets and the pending
\* destructions are as before.
C23_AddEntityFrame ==
    [][\A e \in EntityIds :
          (last'.op = "addEntity" /\ last'.entity = e) =>
              /\ e \notin DOMAIN entities
              /\ DOMAIN entities' = DOMAIN entities \cup {e}
              /\ DOMAIN entities'[e] = {}
              /\ \A cls \in Classes : ~ has(getComponents(e)', cls)
              /\ \A other \in DOMAIN entities : entities'[other] = entities[other]
              /\ nextEntityID' = nextEntityID + 1
              /\ UNCHANGED <<entitiesToDestroy, systems, systemEntities, queryEntities, types>>
              /\ \A s \in Registered' : e \notin ResultSet(s)']_vars

\* C23 witness: an update has called addEntity in a World that holds an
\* entity in a result set and has a destruction pending.
C23_Witness ==
    /\ last.op = "addEntity"
    /\ phase = "update"
    /\ last.entity \in DOMAIN entities
    /\ DOMAIN entities[last.entity] = {}
    /\ entitiesToDestroy # << >>
    /\ \E s \in Registered : ResultSet(s) # {} /\ last.entity \notin ResultSet(s)

\* `pending` with every id once
RECURSIVE Once(_)
Once(pending) ==
    IF pending = << >> THEN << >>
    ELSE IF Head(pending) \in Range(Once(Tail(pending))) THEN Once(Tail(pending))
    ELSE <<Head(pending)>> \o Once(Tail(pending))

\* what the store and the result sets hold now without the ids `gone`
Less(gone) ==
    [ents    |-> Restrict(entities, DOMAIN entities \ gone),
     sets    |-> [s \in DOMAIN systemEntities |-> systemEntities[s] \ gone],
     queries |-> [s \in DOMAIN queryEntities |->
                    IF s \in Registered
                    THEN Restrict(queryEntities[s], DOMAIN queryEntities[s] \ gone)
                    ELSE queryEntities[s]]]

\* C24. removeEntity is idempotent for the outcome of tick: in every state,
\* the drain of the pending ids, some of them pushed two or more times,
\* leaves the store and the result sets that the drain of the same ids
\* pushed once each leaves: the store and the result sets as they are, less
\* the pending ids and nothing else.
C24_RemoveEntityIdempotent ==
    /\ Drained(StackOrder(entitiesToDestroy)) = Drained(StackOrder(Once(entitiesToDestroy)))
    /\ (variant = "hasAll" =>
           /\ Drained(StackOrder(entitiesToDestroy)).ents = Less(Range(entitiesToDestroy)).ents
           /\ Drained(StackOrder(entitiesToDestroy)).sets = Less(Range(entitiesToDestroy)).sets)
    /\ (variant = "getAll" =>
           /\ Drained(StackOrder(entitiesToDestroy)).ents = Less(Range(entitiesToDestroy)).ents
           /\ Drained(StackOrder(entitiesToDestroy)).queries =
                  Less(Range(entitiesToDestroy)).queries)

\* C24 witness: the drain starts after the updates of two systems called
\* removeEntity for the same entity, which is in a result set, as is another
\* entity.
C24_Witness ==
    /\ phase = "destroy"
    /\ Len(entitiesToDestroy) = 2
    /\ entitiesToDestroy[1] = entitiesToDestroy[2]
    /\ \E r1, r2 \in removedInTick :
           r1[1] = entitiesToDestroy[1] /\ r2[1] = r1[1] /\ r1[2] # r2[2]
    /\ Cardinality(DOMAIN entities) = 2
    /\ \E s \in Registered : ResultSet(s) = DOMAIN entities

\* C25. Engine shader registry: in every state reached by setShader and
\* unsetShader calls, a shader that getShader returns for a name has not had
\* clear() invoked on it, also when a shader is set again under the name it
\* has, or is registered under two names and one of them is unset.
C25_RegisteredNotCleared ==
    \A name \in ShaderNames :
        getShader(name) # NoShader => getShader(name) \notin cleared

==========================================================================
